---- MODULE Spec2Model ----
(***************************************************************************)
(* Model of the tensor peek instruction                                    *)
(* (eval/src/vespa/eval/instruction/generic_peek.cpp): plan construction   *)
(* (ExtractedSpecs, DenseSizes, DensePlan, SparsePlan, PeekParam) and      *)
(* execution (get_offset, make_state, generic_mixed_peek,                  *)
(* my_generic_peek_op) for one or two evaluation threads sharing a plan,   *)
(* and of the deferred start of a read-for-write visitor as driven by      *)
(* storage/src/tests/distributor/read_for_write_visitor_operation_test.cpp *)
(* (SpecVisitor).                                                          *)
(*                                                                         *)
(* Conventions.                                                            *)
(*  - size_t is modelled with the modulus Wrap (a scaled-down 2^64 that    *)
(*    fits TLC's integers); npos is Wrap - 1, int64_t ranges over  *)
(*    IntMin..IntMax.                                                      *)
(*  - A double d is the integer Scale * d (fixed point, Scale = 2), so     *)
(*    that 1.5 and -0.5 exist and int64_t(double) really truncates.        *)
(*  - Sequences are 1-based; positions kept by the code (view_dims, child  *)
(*    indexes, stack depths, cell offsets) stay 0-based as in the code.    *)
(*  - assert() is compiled in; a failed assert or abort() ends the         *)
(*    process.                                                             *)
(***************************************************************************)
EXTENDS Integers, Sequences, FiniteSets, TLC

\* ---------------------------------------------------------------- bounds
MaxSubspaces == 2
MaxBelow == 1

\* ---------------------------------------------------------------- machine integers
Wrap == 1073741824
npos == Wrap - 1
ToSizeT(v) == v % Wrap
IntMax == (Wrap \div 2) - 1
IntMin == -(Wrap \div 2)
Scale == 2

\* What an out-of-range double -> int64_t conversion (undefined behaviour) yields
\* on the builds in use: INT64_MIN (x86-64 cvttsd2si) or saturation (aarch64).
UBOutcomes == {IntMin, IntMax}

\* int64_t(double): truncation toward zero; out of range is undefined.
Trunc(d) == IF d >= 0 THEN d \div Scale ELSE -((-d) \div Scale)
ToInt64(d, ub) == IF Trunc(d) > IntMax \/ Trunc(d) < IntMin THEN ub ELSE Trunc(d)

\* ---------------------------------------------------------------- sequences
Range(s) == {s[i] : i \in 1..Len(s)}
RECURSIVE Product(_)
Product(s) == IF s = <<>> THEN 1 ELSE Head(s) * Product(Tail(s))
RECURSIVE Sum(_)
Sum(s) == IF s = <<>> THEN 0 ELSE Head(s) + Sum(Tail(s))
RECURSIVE Concat(_)
Concat(ss) == IF ss = <<>> THEN <<>> ELSE Head(ss) \o Concat(Tail(ss))
RECURSIVE Filter(_, _)
Filter(s, keep) ==
    IF s = <<>> THEN <<>>
    ELSE IF Head(s) \in keep THEN <<Head(s)>> \o Filter(Tail(s), keep)
         ELSE Filter(Tail(s), keep)

\* ---------------------------------------------------------------- names and labels
\* Dimension names in their string order (operator< on the names).
NameOrder == <<"a", "b", "x", "y">>
Rank(n) == CHOOSE i \in 1..Len(NameOrder) : NameOrder[i] = n
NameLess(a, b) == Rank(a) < Rank(b)

\* ValueType::Dimension: a mapped dimension has size npos.
MappedDim(n) == [name |-> n, size |-> npos]
IndexedDim(n, sz) == [name |-> n, size |-> sz]
is_indexed(d) == d.size # npos
is_mapped(d) == d.size = npos

\* TensorSpec::Label: an index label has an empty name, a name label has index npos.
IndexLabel(i) == [index |-> i, name |-> ""]
NameLabel(s) == [index |-> npos, name |-> s]
label_is_indexed(l) == l.index # npos
label_is_mapped(l) == l.index = npos

\* GenericPeek::MyLabel = variant<Label, size_t>.
ChildRef(i) == [has_child |-> TRUE, child |-> i, label |-> NameLabel("")]
Literal(l) == [has_child |-> FALSE, child |-> 0, label |-> l]

\* "%" PRId64
Digits == <<"0", "1", "2", "3", "4", "5", "6", "7", "8", "9">>
RECURSIVE FormatNat(_)
FormatNat(n) == IF n < 10 THEN Digits[n + 1] ELSE FormatNat(n \div 10) \o Digits[(n % 10) + 1]
make_string(v) == IF v < 0 THEN "-" \o FormatNat(-v) ELSE FormatNat(v)

\* ---------------------------------------------------------------- count_children
RECURSIVE count_children(_)
count_children(spec) ==
    IF spec = <<>> THEN 0
    ELSE (IF Head(spec).child_or_label.has_child THEN 1 ELSE 0) + count_children(Tail(spec))

\* ---------------------------------------------------------------- ExtractedSpecs
DimSpec(name, child_or_label) == [name |-> name, child_or_label |-> child_or_label]

\* visit_ranges over the name-sorted dimensions and the name-sorted spec, with the
\* three visitors of ExtractedSpecs applied as the merge goes; acc carries the two
\* lists built so far.  abort() in the second visitor ends everything.
RECURSIVE VisitRanges(_, _, _, _)
VisitRanges(indexed, acc, dims, spec) ==
    IF dims = <<>> /\ spec = <<>> THEN acc
    ELSE IF dims # <<>> /\ (spec = <<>> \/ NameLess(Head(dims).name, Head(spec).name)) THEN
        \* visit_ranges_first
        VisitRanges(indexed,
                    IF is_indexed(Head(dims)) = indexed
                    THEN [acc EXCEPT !.dimensions = Append(@, Head(dims))]
                    ELSE acc,
                    Tail(dims), spec)
    ELSE IF dims = <<>> \/ NameLess(Head(spec).name, Head(dims).name) THEN
        \* visit_ranges_second: spec has unknown dimension
        [acc EXCEPT !.aborted = TRUE]
    ELSE
        \* visit_ranges_both
        VisitRanges(indexed,
                    IF is_indexed(Head(dims)) = indexed
                    THEN [acc EXCEPT !.dimensions = Append(@, Head(dims)),
                                     !.specs = Append(@, DimSpec(Head(dims).name,
                                                                 Head(spec).child_or_label))]
                    ELSE acc,
                    Tail(dims), Tail(spec))

\* (a second visitor that skips the unknown dimension)
RECURSIVE VisitRangesSkip(_, _, _, _)
VisitRangesSkip(indexed, acc, dims, spec) ==
    IF dims = <<>> /\ spec = <<>> THEN acc
    ELSE IF dims # <<>> /\ (spec = <<>> \/ NameLess(Head(dims).name, Head(spec).name)) THEN
        VisitRangesSkip(indexed,
                        IF is_indexed(Head(dims)) = indexed
                        THEN [acc EXCEPT !.dimensions = Append(@, Head(dims))]
                        ELSE acc,
                        Tail(dims), spec)
    ELSE IF dims = <<>> \/ NameLess(Head(spec).name, Head(dims).name) THEN
        VisitRangesSkip(indexed, acc, dims, Tail(spec))
    ELSE
        VisitRangesSkip(indexed,
                        IF is_indexed(Head(dims)) = indexed
                        THEN [acc EXCEPT !.dimensions = Append(@, Head(dims)),
                                         !.specs = Append(@, DimSpec(Head(dims).name,
                                                                     Head(spec).child_or_label))]
                        ELSE acc,
                        Tail(dims), Tail(spec))
ExtractedSpecsSkip(indexed, input_dims, spec) ==
    VisitRangesSkip(indexed, [dimensions |-> <<>>, specs |-> <<>>, aborted |-> FALSE],
                    input_dims, spec)

ExtractedSpecs(indexed, input_dims, spec) ==
    VisitRanges(indexed, [dimensions |-> <<>>, specs |-> <<>>, aborted |-> FALSE],
                input_dims, spec)

\* ---------------------------------------------------------------- DenseSizes
RECURSIVE Strides(_)
Strides(size) ==
    IF size = <<>> THEN <<>> ELSE <<Product(Tail(size))>> \o Strides(Tail(size))

\* (a stride loop that stops one dimension early)
DenseSizesShort(dims) ==
    LET size == [i \in 1..Len(dims) |-> dims[i].size]
    IN [size |-> size, stride |-> Strides(size),
        cur_size |-> IF size = <<>> THEN 1 ELSE Product(Tail(size))]

DenseSizes(dims) ==
    LET size == [i \in 1..Len(dims) |-> dims[i].size]
    IN [size |-> size, stride |-> Strides(size), cur_size |-> Product(size)]

\* ---------------------------------------------------------------- DensePlan
Child(idx, stride, limit) == [idx |-> idx, stride |-> stride, limit |-> limit]

EmptyDensePlan ==
    [in_dense_size |-> 1, out_dense_size |-> 1, loop_cnt |-> <<>>, in_stride |-> <<>>,
     verbatim_offset |-> 0, children |-> <<>>, status |-> "ok"]

\* The loop of the constructor: i runs over mine.dimensions, pos over mine.specs.
\* status: "ok", or "assert" when one of the constructor's assertions fails.
RECURSIVE DensePlanLoop(_, _, _, _, _)
DensePlanLoop(plan, mine, sizes, i, pos) ==
    IF i > Len(mine.dimensions) THEN
        IF pos = Len(mine.specs) + 1 THEN plan ELSE [plan EXCEPT !.status = "assert"]
    ELSE IF pos > Len(mine.specs) \/ NameLess(mine.dimensions[i].name, mine.specs[pos].name) THEN
        DensePlanLoop([plan EXCEPT !.loop_cnt = Append(@, sizes.size[i]),
                                   !.in_stride = Append(@, sizes.stride[i]),
                                   !.out_dense_size = @ * sizes.size[i]],
                      mine, sizes, i + 1, pos)
    ELSE IF mine.dimensions[i].name # mine.specs[pos].name THEN
        [plan EXCEPT !.status = "assert"]
    ELSE IF mine.specs[pos].child_or_label.has_child THEN
        DensePlanLoop([plan EXCEPT !.children =
                           Append(@, Child(mine.specs[pos].child_or_label.child,
                                           sizes.stride[i], sizes.size[i]))],
                      mine, sizes, i + 1, pos + 1)
    ELSE IF ~label_is_indexed(mine.specs[pos].child_or_label.label) THEN
        \* get_label_index: assert(label.is_indexed())
        [plan EXCEPT !.status = "assert"]
    ELSE IF ~(mine.specs[pos].child_or_label.label.index < sizes.size[i]) THEN
        [plan EXCEPT !.status = "assert"]
    ELSE
        DensePlanLoop([plan EXCEPT !.verbatim_offset =
                           ToSizeT(@ + mine.specs[pos].child_or_label.label.index * sizes.stride[i])],
                      mine, sizes, i + 1, pos + 1)

\* (a constructor that lists the free dimensions innermost first)
RECURSIVE DensePlanLoopInnerFirst(_, _, _, _, _)
DensePlanLoopInnerFirst(plan, mine, sizes, i, pos) ==
    IF i > Len(mine.dimensions) THEN
        IF pos = Len(mine.specs) + 1 THEN plan ELSE [plan EXCEPT !.status = "assert"]
    ELSE IF pos > Len(mine.specs) \/ NameLess(mine.dimensions[i].name, mine.specs[pos].name) THEN
        DensePlanLoopInnerFirst([plan EXCEPT !.loop_cnt = <<sizes.size[i]>> \o @,
                                             !.in_stride = <<sizes.stride[i]>> \o @,
                                             !.out_dense_size = @ * sizes.size[i]],
                                mine, sizes, i + 1, pos)
    ELSE IF mine.dimensions[i].name # mine.specs[pos].name THEN
        [plan EXCEPT !.status = "assert"]
    ELSE IF mine.specs[pos].child_or_label.has_child THEN
        DensePlanLoopInnerFirst([plan EXCEPT !.children =
                                     Append(@, Child(mine.specs[pos].child_or_label.child,
                                                     sizes.stride[i], sizes.size[i]))],
                                mine, sizes, i + 1, pos + 1)
    ELSE IF ~label_is_indexed(mine.specs[pos].child_or_label.label) THEN
        [plan EXCEPT !.status = "assert"]
    ELSE IF ~(mine.specs[pos].child_or_label.label.index < sizes.size[i]) THEN
        [plan EXCEPT !.status = "assert"]
    ELSE
        DensePlanLoopInnerFirst([plan EXCEPT !.verbatim_offset =
                                     ToSizeT(@ + mine.specs[pos].child_or_label.label.index
                                                 * sizes.stride[i])],
                                mine, sizes, i + 1, pos + 1)
DensePlanInnerFirst(input_type, spec) ==
    LET mine == ExtractedSpecs(TRUE, input_type, spec)
        sizes == DenseSizes(mine.dimensions)
    IN IF mine.aborted THEN [EmptyDensePlan EXCEPT !.status = "abort"]
       ELSE DensePlanLoopInnerFirst([EmptyDensePlan EXCEPT !.in_dense_size = sizes.cur_size],
                                    mine, sizes, 1, 1)

DensePlan(input_type, spec) ==
    LET mine == ExtractedSpecs(TRUE, input_type, spec)
        sizes == DenseSizes(mine.dimensions)
    IN IF mine.aborted THEN [EmptyDensePlan EXCEPT !.status = "abort"]
       ELSE DensePlanLoop([EmptyDensePlan EXCEPT !.in_dense_size = sizes.cur_size],
                          mine, sizes, 1, 1)

\* DensePlan::get_offset; get_child_value is a function child index -> int64_t.
RECURSIVE GetOffsetLoop(_, _, _, _)
GetOffsetLoop(children, get_child_value, offset, i) ==
    IF i > Len(children) THEN offset
    ELSE LET from_child == ToSizeT(get_child_value[children[i].idx])
         IN IF from_child < children[i].limit
            THEN GetOffsetLoop(children, get_child_value,
                               ToSizeT(offset + from_child * children[i].stride), i + 1)
            ELSE npos

\* (a bounds check on the signed child value)
RECURSIVE GetOffsetLoopSigned(_, _, _, _)
GetOffsetLoopSigned(children, get_child_value, offset, i) ==
    IF i > Len(children) THEN offset
    ELSE LET from_child == get_child_value[children[i].idx]
         IN IF from_child < children[i].limit
            THEN GetOffsetLoopSigned(children, get_child_value,
                                     ToSizeT(offset + from_child * children[i].stride), i + 1)
            ELSE npos
get_offset_signed(dense_plan, get_child_value) ==
    GetOffsetLoopSigned(dense_plan.children, get_child_value, dense_plan.verbatim_offset, 1)

\* (a bounds check that lets the size itself through)
RECURSIVE GetOffsetLoopInclusive(_, _, _, _)
GetOffsetLoopInclusive(children, get_child_value, offset, i) ==
    IF i > Len(children) THEN offset
    ELSE LET from_child == ToSizeT(get_child_value[children[i].idx])
         IN IF from_child <= children[i].limit
            THEN GetOffsetLoopInclusive(children, get_child_value,
                                        ToSizeT(offset + from_child * children[i].stride), i + 1)
            ELSE npos
get_offset_inclusive(dense_plan, get_child_value) ==
    GetOffsetLoopInclusive(dense_plan.children, get_child_value, dense_plan.verbatim_offset, 1)

get_offset(dense_plan, get_child_value) ==
    GetOffsetLoop(dense_plan.children, get_child_value, dense_plan.verbatim_offset, 1)

\* run_nested_loop(offset, loop_cnt, in_stride, f): the indexes handed to f, in order.
RECURSIVE run_nested_loop(_, _, _)
run_nested_loop(offset, loop_cnt, in_stride) ==
    IF loop_cnt = <<>> THEN <<offset>>
    ELSE Concat([k \in 1..Head(loop_cnt) |->
                    run_nested_loop(offset + (k - 1) * Head(in_stride),
                                    Tail(loop_cnt), Tail(in_stride))])

execute(dense_plan, offset) ==
    run_nested_loop(offset, dense_plan.loop_cnt, dense_plan.in_stride)

\* ---------------------------------------------------------------- SparsePlan
EmptySparsePlan ==
    [out_mapped_dims |-> 0, lookup_specs |-> <<>>, view_dims |-> <<>>, status |-> "ok"]

RECURSIVE SparsePlanLoop(_, _, _, _)
SparsePlanLoop(plan, dimensions, dim_idx, pos) ==
    IF dim_idx >= Len(dimensions) THEN
        IF pos = Len(plan.lookup_specs) + 1 THEN plan ELSE [plan EXCEPT !.status = "assert"]
    ELSE IF pos > Len(plan.lookup_specs)
            \/ NameLess(dimensions[dim_idx + 1].name, plan.lookup_specs[pos].name) THEN
        SparsePlanLoop([plan EXCEPT !.out_mapped_dims = @ + 1], dimensions, dim_idx + 1, pos)
    ELSE IF dimensions[dim_idx + 1].name # plan.lookup_specs[pos].name THEN
        [plan EXCEPT !.status = "assert"]
    ELSE
        SparsePlanLoop([plan EXCEPT !.view_dims = Append(@, dim_idx)],
                       dimensions, dim_idx + 1, pos + 1)

\* (view dimensions numbered within the pinned ones)
RECURSIVE SparsePlanLoopPos(_, _, _, _)
SparsePlanLoopPos(plan, dimensions, dim_idx, pos) ==
    IF dim_idx >= Len(dimensions) THEN
        IF pos = Len(plan.lookup_specs) + 1 THEN plan ELSE [plan EXCEPT !.status = "assert"]
    ELSE IF pos > Len(plan.lookup_specs)
            \/ NameLess(dimensions[dim_idx + 1].name, plan.lookup_specs[pos].name) THEN
        SparsePlanLoopPos([plan EXCEPT !.out_mapped_dims = @ + 1], dimensions, dim_idx + 1, pos)
    ELSE IF dimensions[dim_idx + 1].name # plan.lookup_specs[pos].name THEN
        [plan EXCEPT !.status = "assert"]
    ELSE
        SparsePlanLoopPos([plan EXCEPT !.view_dims = Append(@, pos - 1)],
                          dimensions, dim_idx + 1, pos + 1)
SparsePlanPos(input_type, spec) ==
    LET mine == ExtractedSpecs(FALSE, input_type, spec)
    IN IF mine.aborted THEN [EmptySparsePlan EXCEPT !.status = "abort"]
       ELSE SparsePlanLoopPos([EmptySparsePlan EXCEPT !.lookup_specs = mine.specs],
                              mine.dimensions, 0, 1)

\* (a constructor that counts every mapped dimension as an output dimension)
RECURSIVE SparsePlanLoopCountAll(_, _, _, _)
SparsePlanLoopCountAll(plan, dimensions, dim_idx, pos) ==
    IF dim_idx >= Len(dimensions) THEN
        IF pos = Len(plan.lookup_specs) + 1 THEN plan ELSE [plan EXCEPT !.status = "assert"]
    ELSE IF pos > Len(plan.lookup_specs)
            \/ NameLess(dimensions[dim_idx + 1].name, plan.lookup_specs[pos].name) THEN
        SparsePlanLoopCountAll([plan EXCEPT !.out_mapped_dims = @ + 1],
                               dimensions, dim_idx + 1, pos)
    ELSE IF dimensions[dim_idx + 1].name # plan.lookup_specs[pos].name THEN
        [plan EXCEPT !.status = "assert"]
    ELSE
        SparsePlanLoopCountAll([plan EXCEPT !.view_dims = Append(@, dim_idx),
                                            !.out_mapped_dims = @ + 1],
                               dimensions, dim_idx + 1, pos + 1)
SparsePlanCountAll(input_type, spec) ==
    LET mine == ExtractedSpecs(FALSE, input_type, spec)
    IN IF mine.aborted THEN [EmptySparsePlan EXCEPT !.status = "abort"]
       ELSE SparsePlanLoopCountAll([EmptySparsePlan EXCEPT !.lookup_specs = mine.specs],
                                   mine.dimensions, 0, 1)

SparsePlan(input_type, spec) ==
    LET mine == ExtractedSpecs(FALSE, input_type, spec)
    IN IF mine.aborted THEN [EmptySparsePlan EXCEPT !.status = "abort"]
       ELSE SparsePlanLoop([EmptySparsePlan EXCEPT !.lookup_specs = mine.specs],
                           mine.dimensions, 0, 1)

\* SparseState(view_addr, out_dims): the lookup keys and the output address buffer
\* (view_refs, lookup_refs and fetch_addr are references to these two).
SparseState(view_addr, out_dims) ==
    [view_addr |-> view_addr, output_addr |-> [i \in 1..out_dims |-> ""], status |-> "ok"]

\* SparsePlan::make_state
RECURSIVE MakeStateLoop(_, _, _)
MakeStateLoop(lookup_specs, get_child_value, view_addr) ==
    IF lookup_specs = <<>> THEN [view_addr |-> view_addr, status |-> "ok"]
    ELSE IF Head(lookup_specs).child_or_label.has_child THEN
        MakeStateLoop(Tail(lookup_specs), get_child_value,
                      Append(view_addr,
                             make_string(get_child_value[Head(lookup_specs).child_or_label.child])))
    ELSE IF ~label_is_mapped(Head(lookup_specs).child_or_label.label) THEN
        \* get_label_name: assert(label.is_mapped())
        [view_addr |-> view_addr, status |-> "assert"]
    ELSE
        MakeStateLoop(Tail(lookup_specs), get_child_value,
                      Append(view_addr, Head(lookup_specs).child_or_label.label.name))

make_state(sparse_plan, get_child_value) ==
    LET r == MakeStateLoop(sparse_plan.lookup_specs, get_child_value, <<>>)
    IN IF r.status # "ok" \/ Len(r.view_addr) # Len(sparse_plan.view_dims)
       THEN [SparseState(r.view_addr, sparse_plan.out_mapped_dims) EXCEPT !.status = "assert"]
       ELSE SparseState(r.view_addr, sparse_plan.out_mapped_dims)

\* ---------------------------------------------------------------- values
\* A Value: its type (the name-sorted dimensions), its sparse index (the address of
\* each subspace, one label per mapped dimension, in subspace order) and its cells.
Value(type, index, cells) == [type |-> type, index |-> index, cells |-> cells]
DoubleValue(d) == Value(<<>>, << <<>> >>, <<d>>)
NoValue == Value(<<>>, <<>>, <<>>)
as_double(v) == v.cells[1]

MappedDims(type) == Filter(type, {d \in Range(type) : is_mapped(d)})
IndexedDims(type) == Filter(type, {d \in Range(type) : is_indexed(d)})

\* ValueType::dense_subspace_size
dense_subspace_size(type) == Product([i \in 1..Len(IndexedDims(type)) |-> IndexedDims(type)[i].size])

\* The result type type inference hands in: the input dimensions the spec leaves free.
SpecNames(spec) == {spec[i].name : i \in 1..Len(spec)}
PeekType(input_type, spec) ==
    Filter(input_type, {d \in Range(input_type) : d.name \notin SpecNames(spec)})

\* ---------------------------------------------------------------- collaborators
\* State::peek(ridx): the operand ridx below the top; the top is the end of the sequence.
peek(stack, ridx) == stack[Len(stack) - ridx]

\* State::pop_n_push(n, value)
pop_n_push(stack, n, value) == Append(SubSeq(stack, 1, Len(stack) - n), value)

\* index().create_view(view_dims) + lookup(keys): the ordinals of the subspaces whose
\* labels at the view dimensions equal the keys.
view_lookup(index, view_dims, keys) ==
    {s \in 0..(Len(index) - 1) :
        \A i \in 1..Len(view_dims) : index[s + 1][view_dims[i] + 1] = keys[i]}

\* next_result: the labels of the dimensions outside the view, in dimension order.
RECURSIVE fetch_addr(_, _, _)
fetch_addr(addr, view_dims, dim_idx) ==
    IF addr = <<>> THEN <<>>
    ELSE (IF dim_idx \in Range(view_dims) THEN <<>> ELSE <<Head(addr)>>)
         \o fetch_addr(Tail(addr), view_dims, dim_idx + 1)

\* ValueBuilder: the subspaces added so far, each an address and its cells.
Subspace(addr, cells) == [addr |-> addr, cells |-> cells]
build(res_type, builder) ==
    Value(res_type,
          [i \in 1..Len(builder) |-> builder[i].addr],
          Concat([i \in 1..Len(builder) |-> builder[i].cells]))

\* ---------------------------------------------------------------- my_generic_peek_op
last_child(num_children) == ToSizeT(num_children - 1)
\* (children read in push order from the top)
stack_idx_forward(num_children, child_idx) == child_idx
stack_idx(num_children, child_idx) == ToSizeT(last_child(num_children) - child_idx)

\* The get_child_value lambda as a function of the child index; ub is what an
\* out-of-range conversion yields.
get_child_value(stack, num_children, ub) ==
    [child_idx \in 0..(num_children - 1) |->
        ToInt64(as_double(peek(stack, stack_idx(num_children, child_idx))), ub)]

\* The children get_offset asks for: up to and including the first one out of range.
RECURSIVE OffsetReads(_, _, _)
OffsetReads(children, getter, i) ==
    IF i > Len(children) THEN {}
    ELSE {children[i].idx} \cup
         (IF ToSizeT(getter[children[i].idx]) < children[i].limit
          THEN OffsetReads(children, getter, i + 1) ELSE {})

\* The children make_state asks for: those before the first failing assertion.
RECURSIVE StateReads(_)
StateReads(lookup_specs) ==
    IF lookup_specs = <<>> THEN {}
    ELSE IF Head(lookup_specs).child_or_label.has_child
         THEN {Head(lookup_specs).child_or_label.child} \cup StateReads(Tail(lookup_specs))
         ELSE IF label_is_mapped(Head(lookup_specs).child_or_label.label)
              THEN StateReads(Tail(lookup_specs)) ELSE {}

Read(num_children, child_idx) ==
    [child |-> child_idx, depth |-> stack_idx(num_children, child_idx)]

\* ---------------------------------------------------------------- inputs
\* The dimensions input types are drawn from, sorted by name.
Universe == <<MappedDim("a"), IndexedDim("b", 2), IndexedDim("x", 3), MappedDim("y")>>
\* Input types have up to all but one of these dimensions.
MaxDims == Len(Universe) - 1
InputTypes == {Filter(Universe, S) : S \in {D \in SUBSET Range(Universe) : Cardinality(D) <= MaxDims}}

\* What a spec may say about a dimension: nothing, a child, or a literal label
\* (of the right or of the wrong kind, in or out of range).
Option(kind, label) == [kind |-> kind, label |-> label]
Options(dim) ==
    {Option("none", NameLabel("")), Option("child", NameLabel(""))}
    \cup (IF is_mapped(dim)
          THEN {Option("label", NameLabel("a")), Option("label", NameLabel("z")),
                Option("label", IndexLabel(1))}
          ELSE {Option("label", IndexLabel(1)), Option("label", IndexLabel(2)),
                Option("label", NameLabel("a"))})

\* The spec map of a choice of options: its entries in name order, the children
\* numbered in that order.
RECURSIVE SpecOf(_, _, _)
SpecOf(choice, i, next_child) ==
    IF i > Len(Universe) THEN <<>>
    ELSE IF choice[i].kind = "none" THEN SpecOf(choice, i + 1, next_child)
    ELSE IF choice[i].kind = "child" THEN
        <<DimSpec(Universe[i].name, ChildRef(next_child))>> \o SpecOf(choice, i + 1, next_child + 1)
    ELSE <<DimSpec(Universe[i].name, Literal(choice[i].label))>> \o SpecOf(choice, i + 1, next_child)

MaxChildren == 2
Specs ==
    {sp \in {SpecOf(choice, 1, 0) :
                choice \in {c \in [1..Len(Universe) -> UNION {Options(Universe[i]) : i \in 1..Len(Universe)}] :
                               \A i \in 1..Len(Universe) : c[i] \in Options(Universe[i])}} :
        count_children(sp) <= MaxChildren}

\* The labels of the input's subspaces, and its sparse indexes: up to MaxSubspaces
\* distinct addresses; a value without mapped dimensions has its one subspace.
\* The subspaces are listed in one order of their addresses.
LabelOrder == <<"a", "1", "b">>
Labels == Range(LabelOrder)
LabelRank(l) == CHOOSE i \in 1..Len(LabelOrder) : LabelOrder[i] = l
RECURSIVE AddrLess(_, _)
AddrLess(p, q) ==
    /\ p # <<>>
    /\ \/ LabelRank(Head(p)) < LabelRank(Head(q))
       \/ Head(p) = Head(q) /\ AddrLess(Tail(p), Tail(q))
Indexes(n) ==
    IF n = 0 THEN {<< <<>> >>}
    ELSE {ix \in UNION {[1..k -> [1..n -> Labels]] : k \in 0..MaxSubspaces} :
             \A i \in 1..(Len(ix) - 1) : AddrLess(ix[i], ix[i + 1])}

\* Cell i (0-based) of the input holds i + 1.
InputValue(type, index) ==
    Value(type, index, [i \in 1..(Len(index) * dense_subspace_size(type)) |-> Scale * i])

\* input_cells[idx], as the set of values the read may yield.  ConstArrayRef's
\* operator[] does not check idx: a read outside the cell array is undefined and
\* yields whatever the memory behind the array holds, each read on its own.
\* AnyDouble stands for every double: those from -1.0 to the largest cell an input
\* holds (MaxCell) that the fixed point has a number for are themselves, and
\* OtherDouble, below every number the fixed point uses, is any other one.
MaxCell == Scale * MaxSubspaces * dense_subspace_size(Universe)
OtherDouble == -(Wrap + 1)
AnyDouble == ((-Scale)..MaxCell) \cup {OtherDouble}
input_cell(cells, idx) == IF idx < Len(cells) THEN {cells[idx + 1]} ELSE AnyDouble

\* The child values: -1.0, -0.5, 1.5, 2.0 and one beyond int64_t.
Huge == Scale * (IntMax + 1)
ChildVals == {-2, -1, 3, 4, Huge}

Below(nb) == [i \in 1..nb |-> DoubleValue(Scale * (40 + i))]

\* ---------------------------------------------------------------- state
Threads == {1, 2}

VARIABLES
    input_type,        \* the input's type
    spec,              \* the spec map, as its entries in name order
    res_type,          \* the result type
    build_pc,          \* where GenericPeek::make_instruction is
    mine,              \* the ExtractedSpecs of the dense and of the sparse plan
    param,             \* the PeekParam
    input_value,       \* the input Value the invocations share
    active,            \* the evaluation threads
    stack0,            \* each thread's operand stack as it was when the instruction ran
    stack,             \* each thread's operand stack
    pc,                \* where each thread's my_generic_peek_op is
    in_ref,            \* the Value each thread read as its input
    builder,           \* each thread's value builder
    filled_subspaces,
    dense_offset,
    state,             \* each thread's SparseState
    view,              \* each thread's view: the subspaces not yet reported
    reported,          \* the subspace ordinals next_result has reported, in order
    reads              \* the child reads each thread has made: child index and stack depth

config_vars == <<input_type, spec, res_type>>
build_vars == <<build_pc, mine, param>>
thread_vars == <<stack0, stack, pc, in_ref, builder, filled_subspaces, dense_offset,
                 state, view, reported, reads>>
peek_vars == <<config_vars, build_vars, input_value, active, thread_vars>>

\* The distributor fixture of the read-for-write visitor tests
\* (storage/src/tests/distributor/read_for_write_visitor_operation_test.cpp).
VARIABLES
    commands,          \* _sender: the commands sent down, in order
    replies,           \* _sender: the replies sent up, in order
    pending_msgs,      \* the PendingMessageTracker's messages
    deferred_tasks,    \* the tracker's deferred tasks, by the bucket each waits for
    active_buckets,    \* the buckets the OperationSequencer has locked
    mutating_op,       \* each update operation: where it is and the bucket it writes to
    rfw_op             \* the ReadForWriteVisitorOperationStarter and its nested visitor

distributor_vars == <<commands, replies, pending_msgs, deferred_tasks, active_buckets,
                      mutating_op, rfw_op>>
vars == <<peek_vars, distributor_vars>>

NoMine == [dimensions |-> <<>>, specs |-> <<>>, aborted |-> FALSE]
NoParam ==
    [res_type |-> <<>>, dense_plan |-> EmptyDensePlan, sparse_plan |-> EmptySparsePlan,
     num_children |-> 0]

\* The update operations of the fixture, one per document.
MaxMutatingOps == 2
MutatingOps == 1..MaxMutatingOps
\* _sub_bucket is the bucket the visitor starts with; other_bucket is any other one.
sub_bucket == "BucketId(17, 4)"
other_bucket == "BucketId(17, 5)"
Buckets == {sub_bucket, other_bucket}
NoBucket == "BucketId()"

\* SetUp(): nothing sent, nothing pending, nothing locked, no operation created.
SetUp ==
    /\ commands = <<>>
    /\ replies = <<>>
    /\ pending_msgs = {}
    /\ deferred_tasks = {}
    /\ active_buckets = {}
    /\ mutating_op = [o \in MutatingOps |-> [at |-> "none", bucket |-> NoBucket]]
    /\ rfw_op = [at |-> "none", valid_command |-> FALSE]

InitWith(types, specs, threads) ==
    /\ SetUp
    /\ input_type \in types
    /\ spec \in specs
    /\ res_type = PeekType(input_type, spec)
    /\ build_pc = "start"
    /\ mine = [dense |-> NoMine, sparse |-> NoMine]
    /\ param = NoParam
    /\ input_value = NoValue
    /\ active = threads
    /\ stack0 = [t \in Threads |-> <<>>]
    /\ stack = [t \in Threads |-> <<>>]
    /\ pc = [t \in Threads |-> "idle"]
    /\ in_ref = [t \in Threads |-> NoValue]
    /\ builder = [t \in Threads |-> <<>>]
    /\ filled_subspaces = [t \in Threads |-> 0]
    /\ dense_offset = [t \in Threads |-> 0]
    /\ state = [t \in Threads |-> SparseState(<<>>, 0)]
    /\ view = [t \in Threads |-> {}]
    /\ reported = [t \in Threads |-> <<>>]
    /\ reads = [t \in Threads |-> {}]

Init == InitWith(InputTypes, Specs, {1})

\* ---------------------------------------------------------------- plan construction
\* PeekParam's initializer list, first half: dense_plan(input_type, spec_in).
BuildDensePlan ==
    /\ build_pc = "start"
    /\ mine' = [mine EXCEPT !.dense = ExtractedSpecs(TRUE, input_type, spec)]
    /\ LET dp == DensePlan(input_type, spec)
       IN IF dp.status = "ok"
          THEN /\ param' = [param EXCEPT !.res_type = res_type, !.dense_plan = dp]
               /\ build_pc' = "dense"
          ELSE /\ param' = param
               /\ build_pc' = IF dp.status = "abort" THEN "aborted" ELSE "assert_failed"
    /\ UNCHANGED <<distributor_vars, config_vars, input_value, active, thread_vars>>

\* sparse_plan(input_type, spec_in).
BuildSparsePlan ==
    /\ build_pc = "dense"
    /\ mine' = [mine EXCEPT !.sparse = ExtractedSpecs(FALSE, input_type, spec)]
    /\ LET sp == SparsePlan(input_type, spec)
       IN IF sp.status = "ok"
          THEN /\ param' = [param EXCEPT !.sparse_plan = sp]
               /\ build_pc' = "sparse"
          ELSE /\ param' = param
               /\ build_pc' = IF sp.status = "abort" THEN "aborted" ELSE "assert_failed"
    /\ UNCHANGED <<distributor_vars, config_vars, input_value, active, thread_vars>>

\* num_children(count_children(spec_in)) and the two assertions of the constructor
\* body; then make_instruction wraps the param.
PeekParam ==
    /\ build_pc = "sparse"
    /\ param' = [param EXCEPT !.num_children = count_children(spec)]
    /\ build_pc' =
          IF /\ param.dense_plan.in_dense_size = dense_subspace_size(input_type)
             /\ param.dense_plan.out_dense_size = dense_subspace_size(param.res_type)
          THEN "ready" ELSE "size_assert_failed"
    /\ UNCHANGED <<distributor_vars, config_vars, mine, input_value, active, thread_vars>>

\* ---------------------------------------------------------------- evaluation
\* The input value of this evaluation.
ProvideInput ==
    /\ build_pc = "ready"
    /\ \E index \in Indexes(Len(MappedDims(input_type))) :
          input_value' = InputValue(input_type, index)
    /\ build_pc' = "running"
    /\ UNCHANGED <<distributor_vars, config_vars, mine, param, active, thread_vars>>

\* The evaluator pushes the input and then the children, child 0 first.
PushOperands(t) ==
    /\ build_pc = "running"
    /\ t \in active
    /\ pc[t] = "idle"
    /\ \E vals \in [1..param.num_children -> ChildVals] :
          LET st == Below(MaxBelow) \o <<input_value>>
                    \o [i \in 1..param.num_children |-> DoubleValue(vals[i])]
          IN /\ stack' = [stack EXCEPT ![t] = st]
             /\ stack0' = [stack0 EXCEPT ![t] = st]
    /\ pc' = [pc EXCEPT ![t] = "pushed"]
    /\ UNCHANGED <<distributor_vars, config_vars, build_vars, input_value, active, in_ref, builder,
                   filled_subspaces, dense_offset, state, view, reported, reads>>

\* my_generic_peek_op up to and including generic_mixed_peek's get_offset.
Invoke(t) ==
    /\ pc[t] = "pushed"
    /\ in_ref' = [in_ref EXCEPT ![t] = peek(stack[t], param.num_children)]
    /\ builder' = [builder EXCEPT ![t] = <<>>]
    /\ filled_subspaces' = [filled_subspaces EXCEPT ![t] = 0]
    /\ \E ub \in UBOutcomes :
          LET getter == get_child_value(stack[t], param.num_children, ub)
              off == get_offset(param.dense_plan, getter)
          IN /\ dense_offset' = [dense_offset EXCEPT ![t] = off]
             /\ reads' = [reads EXCEPT ![t] =
                   {Read(param.num_children, c) :
                       c \in OffsetReads(param.dense_plan.children, getter, 1)}]
             /\ pc' = [pc EXCEPT ![t] = IF off # npos THEN "make_state" ELSE "finish"]
    /\ UNCHANGED <<distributor_vars, config_vars, build_vars, input_value, active, stack0, stack,
                   state, view, reported>>

\* make_state, create_view and lookup.
MakeState(t) ==
    /\ pc[t] = "make_state"
    /\ \E ub \in UBOutcomes :
          LET getter == get_child_value(stack[t], param.num_children, ub)
              st == make_state(param.sparse_plan, getter)
          IN /\ state' = [state EXCEPT ![t] = st]
             /\ view' = [view EXCEPT ![t] =
                   IF st.status = "ok"
                   THEN view_lookup(in_ref[t].index, param.sparse_plan.view_dims, st.view_addr)
                   ELSE {}]
             /\ pc' = [pc EXCEPT ![t] = IF st.status = "ok" THEN "iterate" ELSE "assert_failed"]
    /\ reads' = [reads EXCEPT ![t] =
          @ \cup {Read(param.num_children, c) : c \in StateReads(param.sparse_plan.lookup_specs)}]
    /\ UNCHANGED <<distributor_vars, config_vars, build_vars, input_value, active, stack0, stack, in_ref,
                   builder, filled_subspaces, dense_offset, reported>>

\* One turn of the while loop: next_result reports a subspace, add_subspace and the
\* dense nested loop copy it.
\* What the reads of input_cells[idx], idx in idxs, may yield together.
RECURSIVE ReadCells(_, _)
ReadCells(input_cells, idxs) ==
    IF idxs = <<>> THEN {<<>>}
    ELSE {<<v>> \o rest : v \in input_cell(input_cells, Head(idxs)),
                          rest \in ReadCells(input_cells, Tail(idxs))}
\* The n cells of a new subspace that the loop does not write: what the builder's
\* memory held.
RECURSIVE Unwritten(_)
Unwritten(n) ==
    IF n <= 0 THEN {<<>>} ELSE {<<v>> \o rest : v \in AnyDouble, rest \in Unwritten(n - 1)}

\* (a copy that starts every subspace at the output's subspace size)
copy_subspace_out_size(dense_plan, input_cells, dense_off, input_subspace) ==
    LET input_offset == input_subspace * dense_plan.out_dense_size
        idxs == execute(dense_plan, dense_off + input_offset)
        n == dense_plan.out_dense_size
        undefined == Len(idxs) > n \/ \E k \in 1..Len(idxs) : idxs[k] >= Len(input_cells)
    IN {[cells |-> SubSeq(read \o rest, 1, n), crashed |-> FALSE] :
            read \in ReadCells(input_cells, idxs), rest \in Unwritten(n - Len(idxs))}
       \cup (IF undefined THEN {[cells |-> <<>>, crashed |-> TRUE]} ELSE {})

\* add_subspace and the dense copy: what the loop turn may do, each outcome being
\* the cells of the new subspace, or a stop of the process by a read outside the
\* cell array or a write behind the new subspace.
copy_subspace(dense_plan, input_cells, dense_off, input_subspace) ==
    LET input_offset == input_subspace * dense_plan.in_dense_size
        idxs == execute(dense_plan, dense_off + input_offset)
        n == dense_plan.out_dense_size
        undefined == Len(idxs) > n \/ \E k \in 1..Len(idxs) : idxs[k] >= Len(input_cells)
    IN {[cells |-> SubSeq(read \o rest, 1, n), crashed |-> FALSE] :
            read \in ReadCells(input_cells, idxs), rest \in Unwritten(n - Len(idxs))}
       \cup (IF undefined THEN {[cells |-> <<>>, crashed |-> TRUE]} ELSE {})

\* (one view kept with the plan: a reported subspace is gone for every invocation)
NextResultSharedView(t) ==
    /\ pc[t] = "iterate"
    /\ \E input_subspace \in view[t] :
       \E copied \in copy_subspace(param.dense_plan, in_ref[t].cells, dense_offset[t],
                                   input_subspace) :
          LET addr == fetch_addr(in_ref[t].index[input_subspace + 1],
                                 param.sparse_plan.view_dims, 0)
          IN /\ view' = [u \in Threads |-> view[u] \ {input_subspace}]
             /\ state' = [state EXCEPT ![t].output_addr = addr]
             /\ reported' = [reported EXCEPT ![t] = Append(@, input_subspace)]
             /\ IF copied.crashed
                THEN /\ pc' = [pc EXCEPT ![t] = "crashed"]
                     /\ UNCHANGED <<builder, filled_subspaces>>
                ELSE /\ builder' = [builder EXCEPT ![t] = Append(@, Subspace(addr, copied.cells))]
                     /\ filled_subspaces' = [filled_subspaces EXCEPT ![t] = @ + 1]
                     /\ pc' = pc
    /\ UNCHANGED <<distributor_vars, config_vars, build_vars, input_value, active, stack0, stack,
                   in_ref, dense_offset, reads>>

NextResult(t) ==
    /\ pc[t] = "iterate"
    /\ \E input_subspace \in view[t] :
       \E copied \in copy_subspace(param.dense_plan, in_ref[t].cells, dense_offset[t],
                                   input_subspace) :
          LET addr == fetch_addr(in_ref[t].index[input_subspace + 1],
                                 param.sparse_plan.view_dims, 0)
          IN /\ view' = [view EXCEPT ![t] = @ \ {input_subspace}]
             /\ state' = [state EXCEPT ![t].output_addr = addr]
             /\ reported' = [reported EXCEPT ![t] = Append(@, input_subspace)]
             /\ IF copied.crashed
                THEN /\ pc' = [pc EXCEPT ![t] = "crashed"]
                     /\ UNCHANGED <<builder, filled_subspaces>>
                ELSE /\ builder' = [builder EXCEPT ![t] = Append(@, Subspace(addr, copied.cells))]
                     /\ filled_subspaces' = [filled_subspaces EXCEPT ![t] = @ + 1]
                     /\ pc' = pc
    /\ UNCHANGED <<distributor_vars, config_vars, build_vars, input_value, active, stack0, stack,
                   in_ref, dense_offset, reads>>

\* next_result returns false.
EndResults(t) ==
    /\ pc[t] = "iterate"
    /\ view[t] = {}
    /\ pc' = [pc EXCEPT ![t] = "finish"]
    /\ UNCHANGED <<distributor_vars, config_vars, build_vars, input_value, active, stack0, stack, in_ref,
                   builder, filled_subspaces, dense_offset, state, view, reported, reads>>

\* The default subspace of a dense result, build, and pop_n_push.
\* (a default subspace whenever nothing was filled)
default_fill_always(sparse_plan, dense_plan, filled, b) ==
    IF filled = 0
    THEN Append(b, Subspace(<<>>, [k \in 1..dense_plan.out_dense_size |-> 0]))
    ELSE b
\* (no default subspace)
default_fill_never(sparse_plan, dense_plan, filled, b) == b

default_fill(sparse_plan, dense_plan, filled, b) ==
    IF sparse_plan.out_mapped_dims = 0 /\ filled = 0
    THEN Append(b, Subspace(<<>>, [k \in 1..dense_plan.out_dense_size |-> 0]))
    ELSE b

Finish(t) ==
    /\ pc[t] = "finish"
    /\ LET b == default_fill(param.sparse_plan, param.dense_plan, filled_subspaces[t], builder[t])
       IN /\ builder' = [builder EXCEPT ![t] = b]
          /\ stack' = [stack EXCEPT ![t] =
                pop_n_push(@, param.num_children + 1, build(param.res_type, b))]
    /\ pc' = [pc EXCEPT ![t] = "done"]
    /\ UNCHANGED <<distributor_vars, config_vars, build_vars, input_value, active, stack0, in_ref,
                   filled_subspaces, dense_offset, state, view, reported, reads>>

Next ==
    \/ BuildDensePlan
    \/ BuildSparsePlan
    \/ PeekParam
    \/ ProvideInput
    \/ \E t \in Threads : PushOperands(t)
    \/ \E t \in Threads : Invoke(t)
    \/ \E t \in Threads : MakeState(t)
    \/ \E t \in Threads : NextResult(t)
    \/ \E t \in Threads : EndResults(t)
    \/ \E t \in Threads : Finish(t)

Spec == Init /\ [][Next]_vars

\* Two evaluation threads running the same instruction on the same input.
ConcTypes == {ty \in InputTypes : Len(ty) <= 2}
ConcSpecs == {sp \in Specs : count_children(sp) <= 1}
InitConc == InitWith(ConcTypes, ConcSpecs, Threads)
SpecConc == InitConc /\ [][Next]_vars

\* ---------------------------------------------------------------- read-for-write visitor
\* A command as _sender.getCommands(true) prints it: "<type> => <node>".
Command(type, node) == [type |-> type, node |-> node]
VisitorCreate == Command("Visitor Create", 0)
Update == Command("Update", 0)

\* PendingMessageTracker: no message of a mutating operation to the bucket is tracked.
bucket_has_no_pending_write_ops(msgs, bucket) == ~\E m \in msgs : m.bucket = bucket

\* PendingMessageTracker::run_once_no_pending_for_bucket: TRUE when the task runs at
\* once, FALSE when it is kept until the bucket's writes have drained.
run_once_no_pending_for_bucket(msgs, bucket) == bucket_has_no_pending_write_ops(msgs, bucket)

\* PendingMessageTracker::reply, second half: the deferred tasks to run now that the
\* reply's message is gone (msgs is the tracker's content after the erase).
get_deferred_ops_if_bucket_writes_drained(msgs, tasks, bucket) ==
    IF bucket_has_no_pending_write_ops(msgs, bucket) THEN {b \in tasks : b = bucket} ELSE {}

\* OperationSequencer::try_acquire for a document: blocked by a locked bucket.
try_acquire(locked, bucket) == bucket \notin locked

\* create_rfw_op(create_nested_visitor_op(valid_command)).
CreateVisitorOp(valid_command) ==
    /\ rfw_op.at = "none"
    /\ rfw_op' = [at |-> "created", valid_command |-> valid_command]
    /\ UNCHANGED <<peek_vars, commands, replies, pending_msgs, deferred_tasks,
                   active_buckets, mutating_op>>

\* getExternalOperationHandler().handleMessage(update_cmd, mutating_op): an update
\* to a document of the bucket is sequenced and its operation created, or it is
\* bounced while the bucket is locked.  Nothing is sent yet.
handleMessage(o, bucket) ==
    /\ mutating_op[o].at = "none"
    /\ IF try_acquire(active_buckets, bucket)
       THEN /\ mutating_op' = [mutating_op EXCEPT ![o] = [at |-> "created", bucket |-> bucket]]
            /\ replies' = replies
       ELSE /\ mutating_op' = [mutating_op EXCEPT ![o] = [at |-> "bounced", bucket |-> bucket]]
            /\ replies' = Append(replies, "BUSY")
    /\ UNCHANGED <<peek_vars, commands, pending_msgs, deferred_tasks, active_buckets, rfw_op>>

\* _op_owner->start(mutating_op): the operation sends its Update.  The tracker
\* does not hold the command yet.
StartMutatingOp(o) ==
    /\ mutating_op[o].at = "created"
    /\ commands' = Append(commands, Update)
    /\ mutating_op' = [mutating_op EXCEPT ![o].at = "sent"]
    /\ UNCHANGED <<peek_vars, replies, pending_msgs, deferred_tasks, active_buckets, rfw_op>>

\* (the tracker is given update_cmd, whose bucket is still BucketId(0), instead of
\* the command sent)
TrackerInsertUpdateCmd(o) ==
    /\ mutating_op[o].at = "sent"
    /\ pending_msgs' = pending_msgs \cup {[op |-> o, bucket |-> "BucketId(0)"]}
    /\ mutating_op' = [mutating_op EXCEPT ![o].at = "pending"]
    /\ UNCHANGED <<peek_vars, commands, replies, deferred_tasks, active_buckets, rfw_op>>

\* getPendingMessageTracker().insert(_sender.command(0)): the command sent enters
\* the pending message tracker under the bucket it was sent to.
TrackerInsert(o) ==
    /\ mutating_op[o].at = "sent"
    /\ pending_msgs' = pending_msgs \cup {[op |-> o, bucket |-> mutating_op[o].bucket]}
    /\ mutating_op' = [mutating_op EXCEPT ![o].at = "pending"]
    /\ UNCHANGED <<peek_vars, commands, replies, deferred_tasks, active_buckets, rfw_op>>

\* _op_owner->start(op): ReadForWriteVisitorOperationStarter::onStart.  A command
\* without buckets fails the precondition checks; otherwise the bucket is locked and
\* the start of the nested visitor is handed to the tracker.
StartVisitor ==
    /\ rfw_op.at = "created"
    /\ IF ~rfw_op.valid_command
       THEN /\ replies' = Append(replies, "ILLEGAL_PARAMETERS")
            /\ rfw_op' = [rfw_op EXCEPT !.at = "failed"]
            /\ UNCHANGED <<commands, deferred_tasks, active_buckets>>
       ELSE /\ active_buckets' = active_buckets \cup {sub_bucket}
            /\ replies' = replies
            /\ IF run_once_no_pending_for_bucket(pending_msgs, sub_bucket)
               THEN /\ commands' = Append(commands, VisitorCreate)
                    /\ rfw_op' = [rfw_op EXCEPT !.at = "visitor_started"]
                    /\ deferred_tasks' = deferred_tasks
               ELSE /\ deferred_tasks' = deferred_tasks \cup {sub_bucket}
                    /\ rfw_op' = [rfw_op EXCEPT !.at = "deferred"]
                    /\ commands' = commands
    /\ UNCHANGED <<peek_vars, pending_msgs, mutating_op>>

\* The update's reply: the tracker's reply(), which erases the message it holds for
\* the reply (none for a command it was never given) and runs the tasks deferred on
\* that message's bucket once its writes have drained, and _op_owner->handleReply.
HandleReply(o) ==
    /\ mutating_op[o].at \in {"sent", "pending"}
    /\ LET found == {m \in pending_msgs : m.op = o}
           msgs == pending_msgs \ found
           run == UNION {get_deferred_ops_if_bucket_writes_drained(msgs, deferred_tasks,
                                                                   m.bucket) : m \in found}
       IN /\ pending_msgs' = msgs
          /\ deferred_tasks' = deferred_tasks \ run
          /\ IF run # {}
             THEN /\ commands' = Append(commands, VisitorCreate)
                  /\ rfw_op' = [rfw_op EXCEPT !.at = "visitor_started"]
             ELSE UNCHANGED <<commands, rfw_op>>
    /\ mutating_op' = [mutating_op EXCEPT ![o].at = "completed"]
    /\ UNCHANGED <<peek_vars, replies, active_buckets>>

NextVisitor ==
    \/ \E valid_command \in BOOLEAN : CreateVisitorOp(valid_command)
    \/ \E o \in MutatingOps, bucket \in Buckets : handleMessage(o, bucket)
    \/ \E o \in MutatingOps : StartMutatingOp(o)
    \/ \E o \in MutatingOps : TrackerInsert(o)
    \/ StartVisitor
    \/ \E o \in MutatingOps : HandleReply(o)

\* The fixture alone: no peek instruction is built or run.
InitVisitor == InitWith({<<>>}, {<<>>}, {})
SpecVisitor == InitVisitor /\ [][NextVisitor]_vars

\* ================================================================ properties
\* What the spec and the operands say, read off by dimension name.
InputDim(name) == CHOOSE d \in Range(input_type) : d.name = name
PinnedIndexed ==
    {e \in Range(spec) : \E d \in Range(input_type) : d.name = e.name /\ is_indexed(d)}
PinnedMapped ==
    {e \in Range(spec) : \E d \in Range(input_type) : d.name = e.name /\ is_mapped(d)}
NumChildRefs == Cardinality({e \in Range(spec) : e.child_or_label.has_child})

\* Child i is the operand pushed i-th after the input.
ChildDouble(t, i) == as_double(stack0[t][Len(stack0[t]) - (NumChildRefs - 1 - i)])
CoordOf(t, e) ==
    IF e.child_or_label.has_child THEN Trunc(ChildDouble(t, e.child_or_label.child))
    ELSE e.child_or_label.label.index
KeyOf(t, e) ==
    IF e.child_or_label.has_child THEN ToString(Trunc(ChildDouble(t, e.child_or_label.child)))
    ELSE e.child_or_label.label.name

DenseChildOOR(t) ==
    \E e \in PinnedIndexed :
        /\ e.child_or_label.has_child
        /\ CoordOf(t, e) \notin 0..(InputDim(e.name).size - 1)

MappedPos(name) == CHOOSE i \in 1..Len(MappedDims(input_type)) : MappedDims(input_type)[i].name = name
Matching(t) ==
    {s \in 1..Len(input_value.index) :
        \A e \in PinnedMapped : input_value.index[s][MappedPos(e.name)] = KeyOf(t, e)}
KeyExists(t, e) ==
    \E s \in 1..Len(input_value.index) : input_value.index[s][MappedPos(e.name)] = KeyOf(t, e)

Result(t) == stack[t][Len(stack[t])]
ResultIsDense == MappedDims(res_type) = <<>>
FreeSizes == [i \in 1..Len(IndexedDims(res_type)) |-> IndexedDims(res_type)[i].size]
AllZero(cells) == \A k \in 1..Len(cells) : cells[k] = 0
OneDefaultSubspace(v) ==
    /\ Len(v.index) = 1
    /\ Len(v.cells) = Product(FreeSizes)
    /\ AllZero(v.cells)

\* The index of free dimension j (1-based) for output cell k (0-based), row-major.
LoopIdx(cnt, j, k) == (k \div Product(SubSeq(cnt, j + 1, Len(cnt)))) % cnt[j]

\* ---------------------------------------------------------------- C1
\* C1: when the dense offset resolves, every subspace the lookup reports yields one
\* output subspace whose k-th cell is the input cell at
\* ordinal * in_dense_size + dense_offset + sum_j(idx_j * in_stride_j); with every
\* dimension pinned by a label the result is the one addressed input cell.
C1_CellsCopied ==
    \A t \in active :
        (pc[t] \in {"iterate", "finish", "done"} /\ dense_offset[t] # npos) =>
            /\ Len(builder[t]) >= Len(reported[t])
            /\ filled_subspaces[t] = Len(reported[t])
            /\ \A j \in 1..Len(reported[t]) :
                  /\ Len(builder[t][j].cells) = Product(FreeSizes)
                  /\ \A k \in 0..(Product(FreeSizes) - 1) :
                        builder[t][j].cells[k + 1] =
                            in_ref[t].cells[1 + reported[t][j] * param.dense_plan.in_dense_size
                                            + dense_offset[t]
                                            + Sum([i \in 1..Len(FreeSizes) |->
                                                    LoopIdx(FreeSizes, i, k)
                                                    * param.dense_plan.in_stride[i]])]
            /\ (pc[t] = "done" /\ reported[t] # <<>>) =>
                  Result(t) = build(res_type, builder[t])

\* C1, second part.  The cell a spec of labels only addresses, by name: the subspace with those labels,
\* the dense position with those coordinates.
DimStride(name) ==
    Product([i \in 1..Len(IndexedDims(input_type)) |->
                IF NameLess(name, IndexedDims(input_type)[i].name)
                THEN IndexedDims(input_type)[i].size ELSE 1])
AllLabels ==
    /\ SpecNames(spec) = {d.name : d \in Range(input_type)}
    /\ \A e \in Range(spec) : ~e.child_or_label.has_child
C1_RoundTrip ==
    \A t \in active :
        (pc[t] = "done" /\ AllLabels /\ Matching(t) # {}) =>
            \A s \in Matching(t) :
                Result(t) = DoubleValue(
                    input_value.cells[(s - 1) * Product([i \in 1..Len(IndexedDims(input_type)) |->
                                                           IndexedDims(input_type)[i].size])
                                      + Sum([i \in 1..Len(spec) |->
                                               IF spec[i] \in PinnedIndexed
                                               THEN spec[i].child_or_label.label.index
                                                    * DimStride(spec[i].name)
                                               ELSE 0])
                                      + 1])
\* C1: both parts: the cells of every reported subspace are the input cells at
\* ordinal * in_dense_size + dense_offset + sum_j(idx_j * in_stride_j), and a spec of
\* labels only yields the addressed cell as a scalar.
C1_Peek == C1_CellsCopied /\ C1_RoundTrip

\* C1 witness: a finished invocation with a child-pinned and a free indexed
\* dimension that copied two subspaces from a non-zero offset.
C1_Witness ==
    \E t \in active :
        /\ pc[t] = "done"
        /\ Len(reported[t]) = 2
        /\ param.dense_plan.loop_cnt # <<>>
        /\ param.dense_plan.children # <<>>
        /\ dense_offset[t] # npos
        /\ dense_offset[t] > 0

\* ---------------------------------------------------------------- C2
\* C2: when a child pinning an indexed dimension truncates to a value outside
\* [0, size), get_offset returns npos, nothing is copied, and the result has no
\* subspace if the result type has a mapped dimension and one all-zero subspace
\* otherwise.
C2_OutOfRange ==
    \A t \in active :
        (pc[t] \notin {"idle", "pushed"} /\ DenseChildOOR(t)) =>
            /\ dense_offset[t] = npos
            /\ pc[t] \in {"finish", "done"}
            /\ reported[t] = <<>>
            /\ filled_subspaces[t] = 0
            /\ pc[t] = "done" =>
                  IF ResultIsDense THEN OneDefaultSubspace(Result(t))
                  ELSE Result(t).index = <<>> /\ Result(t).cells = <<>>

\* C2 witness: a finished invocation whose only out-of-range child is negative, on an input
\* that has a subspace for the pinned keys.
C2_Witness ==
    \E t \in active :
        /\ pc[t] = "done"
        /\ DenseChildOOR(t)
        /\ \A e \in PinnedIndexed :
              e.child_or_label.has_child => CoordOf(t, e) < InputDim(e.name).size
        /\ Matching(t) # {}
        /\ ResultIsDense
        /\ Len(Result(t).cells) > 1

\* ---------------------------------------------------------------- C3
\* C3: when the pinned keys match no input subspace the result has no subspace,
\* unless the result type has no mapped dimension: then it has one all-zero
\* subspace; a result without mapped dimensions always has exactly one subspace.
C3_NoMatch ==
    \A t \in active :
        pc[t] = "done" =>
            /\ Matching(t) = {} =>
                  IF ResultIsDense THEN OneDefaultSubspace(Result(t))
                  ELSE Result(t).index = <<>> /\ Result(t).cells = <<>>
            /\ ResultIsDense =>
                  /\ Len(Result(t).index) = 1
                  /\ Len(Result(t).cells) = Product(FreeSizes)

\* C3 witness: a finished invocation whose offset resolved, whose keys (one of them a child)
\* matched nothing in a non-empty input, and whose result is dense.
C3_Witness ==
    \E t \in active :
        /\ pc[t] = "done"
        /\ dense_offset[t] # npos
        /\ input_value.index # <<>>
        /\ Matching(t) = {}
        /\ \E e \in PinnedMapped : e.child_or_label.has_child
        /\ ResultIsDense
        /\ Len(Result(t).cells) > 1

\* ---------------------------------------------------------------- C4
AllKeysExist(t) == \A e \in PinnedMapped : KeyExists(t, e)

\* C4, as stated: with every pinned coordinate in range and every pinned key in the
\* input, the result has as many subspaces as the input has matching ones.
C4_CountAsStated ==
    \A t \in active :
        (pc[t] = "done" /\ ~DenseChildOOR(t) /\ AllKeysExist(t)) =>
            Len(Result(t).index) = Cardinality(Matching(t))

\* C4, amended: ... as many subspaces as the input has matching ones, except that a
\* result type without mapped dimensions gets its one all-zero subspace when no
\* single input subspace carries all the keys.
C4_Count ==
    \A t \in active :
        (pc[t] = "done" /\ ~DenseChildOOR(t) /\ AllKeysExist(t)) =>
            IF ResultIsDense /\ Matching(t) = {}
            THEN OneDefaultSubspace(Result(t))
            ELSE Len(Result(t).index) = Cardinality(Matching(t))

\* C4 witness: both keys are in the input, no subspace carries both, the result is dense.
C4_Witness ==
    \E t \in active :
        /\ pc[t] = "done"
        /\ ~DenseChildOOR(t)
        /\ Cardinality(PinnedMapped) = 2
        /\ AllKeysExist(t)
        /\ Matching(t) = {}
        /\ ResultIsDense

\* ---------------------------------------------------------------- C5
\* The example: x[3] indexed, y mapped, y="a" -> [1,2,3], y="b" -> [4,5,6]; the spec
\* pins y to "z" and leaves x free.
ExampleType == <<IndexedDim("x", 3), MappedDim("y")>>
ExampleInput ==
    Value(ExampleType, << <<"a">>, <<"b">> >>,
          <<1 * Scale, 2 * Scale, 3 * Scale, 4 * Scale, 5 * Scale, 6 * Scale>>)
ExampleSpec == <<DimSpec("y", Literal(NameLabel("z")))>>
ExampleDone(t) ==
    /\ pc[t] = "done"
    /\ input_type = ExampleType
    /\ spec = ExampleSpec
    /\ input_value = ExampleInput

\* C5, as stated: the example yields a result with zero subspaces.
C5_ExampleAsStated ==
    \A t \in active : ExampleDone(t) => Len(Result(t).index) = 0

\* C5, amended: the example yields the dense tensor x[3] with its one subspace
\* [0,0,0].
C5_Example ==
    \A t \in active :
        ExampleDone(t) =>
            Result(t) = Value(<<IndexedDim("x", 3)>>, << <<>> >>, <<0, 0, 0>>)

\* C5 witness: the example has run.
C5_Witness == \E t \in active : ExampleDone(t)

\* ---------------------------------------------------------------- C6
WrongKindLabel ==
    \E e \in Range(spec) :
        /\ ~e.child_or_label.has_child
        /\ \E d \in Range(input_type) :
              /\ d.name = e.name
              /\ \/ is_mapped(d) /\ label_is_indexed(e.child_or_label.label)
                 \/ is_indexed(d) /\ label_is_mapped(e.child_or_label.label)

\* C6: a literal label of the wrong kind for its dimension, indexed or mapped, is
\* caught by an assertion while the plan is built: construction never completes and
\* no invocation starts.
C6_CaughtAtBuild ==
    WrongKindLabel =>
        /\ build_pc \notin {"ready", "running"}
        /\ \A t \in Threads : pc[t] = "idle"

\* ---------------------------------------------------------------- C7
AbsentName == \E e \in Range(spec) : e.name \notin {d.name : d \in Range(input_type)}
SpecOn(indexed) ==
    Filter(spec, {e \in Range(spec) :
                     \E d \in Range(input_type) : d.name = e.name /\ is_indexed(d) = indexed})

\* C7: a spec naming a dimension the input type lacks aborts in the classifier and
\* no plan is produced; a spec naming input dimensions only never aborts, and each
\* pass yields exactly the dimensions of its kind and their spec entries.
C7_Classifier ==
    /\ AbsentName =>
          /\ build_pc \in {"start", "aborted"}
          /\ param = NoParam
          /\ \A t \in Threads : pc[t] = "idle"
    /\ (AbsentName /\ build_pc # "start") => mine.dense.aborted
    /\ ~AbsentName =>
          /\ build_pc # "aborted"
          /\ ~mine.dense.aborted
          /\ ~mine.sparse.aborted
    /\ (~AbsentName /\ build_pc # "start") =>
          /\ mine.dense.dimensions = IndexedDims(input_type)
          /\ mine.dense.specs = SpecOn(TRUE)
    /\ build_pc \in {"sparse", "ready", "running", "size_assert_failed"} =>
          /\ mine.sparse.dimensions = MappedDims(input_type)
          /\ mine.sparse.specs = SpecOn(FALSE)

\* C7 witness: an abort after the merge has passed a dimension the spec does name.
C7_Witness ==
    /\ build_pc = "aborted"
    /\ Len(spec) >= 2
    /\ spec[1].name \in {d.name : d \in Range(input_type)}
    /\ Len(input_type) >= 2

\* ---------------------------------------------------------------- C8
\* C8: the input is read at depth num_children, child i at depth num_children-1-i;
\* num_children+1 operands are removed, one result is pushed, and everything below
\* the input stays.
C8_StackEffect ==
    \A t \in active :
        /\ pc[t] \in {"pushed", "make_state", "iterate", "finish", "assert_failed"} =>
              stack[t] = stack0[t]
        /\ pc[t] \notin {"idle", "pushed"} =>
              /\ in_ref[t] = stack0[t][Len(stack0[t]) - NumChildRefs]
              /\ \A r \in reads[t] :
                    /\ r.child \in 0..(NumChildRefs - 1)
                    /\ r.depth = NumChildRefs - 1 - r.child
        /\ (pc[t] = "done" /\ dense_offset[t] # npos) =>
              {r.child : r \in reads[t]} = 0..(NumChildRefs - 1)
        /\ pc[t] = "done" =>
              /\ Len(stack[t]) = Len(stack0[t]) - (NumChildRefs + 1) + 1
              /\ SubSeq(stack[t], 1, Len(stack[t]) - 1)
                    = SubSeq(stack0[t], 1, Len(stack0[t]) - (NumChildRefs + 1))
              /\ Result(t) = build(res_type, builder[t])

\* C8 witness: a finished invocation that read two children with different values.
C8_Witness ==
    \E t \in active :
        /\ pc[t] = "done"
        /\ NumChildRefs = 2
        /\ Cardinality(reads[t]) = 2
        /\ ChildDouble(t, 0) # ChildDouble(t, 1)
        /\ Len(stack[t]) > 1

\* ---------------------------------------------------------------- C9
\* What one invocation alone makes of the operands st: its subspaces.
Alone(st, ub_offset, ub_state) ==
    LET off == get_offset(param.dense_plan, get_child_value(st, param.num_children, ub_offset))
        ss == make_state(param.sparse_plan, get_child_value(st, param.num_children, ub_state))
        found == IF off = npos THEN {}
                 ELSE view_lookup(input_value.index, param.sparse_plan.view_dims, ss.view_addr)
        AddrOf(s) == fetch_addr(input_value.index[s + 1], param.sparse_plan.view_dims, 0)
    IN [addrs |-> {AddrOf(s) : s \in found},
        subspaces |-> UNION {{Subspace(AddrOf(s), c.cells) :
                                c \in {o \in copy_subspace(param.dense_plan, input_value.cells,
                                                           off, s) : ~o.crashed}} :
                             s \in found},
        default |-> Range(default_fill(param.sparse_plan, param.dense_plan,
                                       Cardinality(found), <<>>))]
\* builder holds what one invocation alone makes of the operands st: one subspace
\* for each subspace the lookup finds, or the default subspace.
AloneSubspaces(st, b) ==
    \E ub_offset \in UBOutcomes, ub_state \in UBOutcomes :
        LET alone == Alone(st, ub_offset, ub_state)
        IN IF alone.addrs = {} THEN Range(b) = alone.default
           ELSE /\ Range(b) \subseteq alone.subspaces
                /\ {sub.addr : sub \in Range(b)} = alone.addrs
                /\ Len(b) = Cardinality(alone.addrs)

\* C9: invocations that share the plan and the input leave both as they were built
\* and provided, write only their own state, and each produces the result it
\* produces alone.
C9_Independent ==
    build_pc = "running" =>
        /\ param = [res_type |-> res_type,
                    dense_plan |-> DensePlan(input_type, spec),
                    sparse_plan |-> SparsePlan(input_type, spec),
                    num_children |-> count_children(spec)]
        /\ input_value = InputValue(input_type, input_value.index)
        /\ \A t \in Threads :
              /\ pc[t] = "idle" =>
                    /\ builder[t] = <<>> /\ reported[t] = <<>> /\ view[t] = {}
                    /\ state[t] = SparseState(<<>>, 0) /\ stack[t] = <<>> /\ reads[t] = {}
              /\ pc[t] \notin {"idle", "pushed"} => in_ref[t] = input_value
              /\ pc[t] = "done" =>
                    /\ Len(builder[t]) = Cardinality(Range(builder[t]))
                    /\ AloneSubspaces(stack0[t], builder[t])
                    /\ Result(t) = build(res_type, builder[t])

\* C9 witness: both invocations finished, with different children, each having copied a
\* subspace, with different results.
C9_Witness ==
    /\ active = Threads
    /\ \A t \in Threads : pc[t] = "done" /\ reported[t] # <<>>
    /\ stack0[1] # stack0[2]
    /\ Result(1) # Result(2)

\* ---------------------------------------------------------------- C10
\* C10: out_dense_size is the product of the sizes of the result type's indexed
\* dimensions and of the loop counts, in_dense_size the product of the sizes of the
\* input's indexed dimensions, and PeekParam's two size assertions never fail.
C10_Sizes ==
    /\ build_pc \in {"dense", "sparse", "ready", "running", "size_assert_failed"} =>
          /\ param.dense_plan.out_dense_size = Product(FreeSizes)
          /\ param.dense_plan.out_dense_size = Product(param.dense_plan.loop_cnt)
          /\ param.dense_plan.in_dense_size =
                Product([i \in 1..Len(IndexedDims(input_type)) |-> IndexedDims(input_type)[i].size])
    /\ build_pc # "size_assert_failed"

\* C10 witness: a plan with a pinned and a free indexed dimension.
C10_Witness ==
    /\ build_pc = "ready"
    /\ param.dense_plan.out_dense_size > 1
    /\ param.dense_plan.in_dense_size > param.dense_plan.out_dense_size

\* ---------------------------------------------------------------- C11
\* The updates to the visitor's bucket that are pending: sent, entered into the
\* pending message tracker and not yet replied to.
PendingToBucket ==
    {o \in MutatingOps : mutating_op[o].at = "pending" /\ mutating_op[o].bucket = sub_bucket}
VisitorCommands == {i \in 1..Len(commands) : commands[i] = VisitorCreate}
VisitorOpStarted == rfw_op.at \in {"deferred", "visitor_started"}
\* A step that starts a visitor operation whose command names buckets.
VisitorStartStep == rfw_op.at = "created" /\ rfw_op.valid_command /\ rfw_op'.at # "created"

\* C11: a read-for-write visitor started while an update to its bucket is pending
\* is deferred and sends nothing at its start; as long as it is deferred an update
\* to the bucket is pending and no visitor command has been sent; the step after
\* which none is pending any more sends its "Visitor Create".  Started with no
\* update to the bucket pending, it sends the command in the start itself.  The
\* command is sent once only.
C11_DeferredStart ==
    /\ [](rfw_op.at = "deferred" => (VisitorCommands = {} /\ PendingToBucket # {}))
    /\ [](~VisitorOpStarted => VisitorCommands = {})
    /\ [](rfw_op.at = "visitor_started" => Cardinality(VisitorCommands) = 1)
    /\ [][VisitorStartStep =>
             IF PendingToBucket # {}
             THEN rfw_op'.at = "deferred" /\ commands' = commands
             ELSE rfw_op'.at = "visitor_started" /\ commands' = Append(commands, VisitorCreate)]_vars
    /\ [][rfw_op.at = "deferred" =>
             IF PendingToBucket' = {}
             THEN rfw_op'.at = "visitor_started" /\ commands' = Append(commands, VisitorCreate)
             ELSE rfw_op'.at = "deferred"]_vars

\* C11 witness: the visitor was started with an update to its bucket pending, the
\* update's command is the only one sent.
C11_Witness ==
    /\ rfw_op.at = "deferred"
    /\ PendingToBucket # {}
    /\ commands = <<Update>>
    /\ sub_bucket \in deferred_tasks

\* ---------------------------------------------------------------- C12
\* The indexes execute hands to its visitor for input subspace s of thread t.
Visited(t, s) ==
    execute(param.dense_plan, dense_offset[t] + s * param.dense_plan.in_dense_size)
FreeNames == [i \in 1..Len(IndexedDims(res_type)) |-> IndexedDims(res_type)[i].name]
Resolved(t) ==
    /\ pc[t] \in {"make_state", "iterate", "finish", "done", "assert_failed"}
    /\ dense_offset[t] # npos

\* C12: from a resolved base offset, execute calls the visitor product(loop_cnt)
\* times, with pairwise distinct indexes, the k-th of them (row-major over the free
\* dimensions in ascending name order, the last one fastest) being
\* base + sum_j(idx_j * stride of free dimension j in the input); with no free
\* dimension the one call gets the base offset.
C12_NestedLoop ==
    \A t \in active :
        Resolved(t) =>
            \A s \in 0..(MaxSubspaces - 1) :
                LET base == dense_offset[t] + s * param.dense_plan.in_dense_size
                    seen == Visited(t, s)
                IN /\ Len(seen) = Product(param.dense_plan.loop_cnt)
                   /\ Len(seen) = Product(FreeSizes)
                   /\ \A k \in 0..(Len(seen) - 1) :
                         seen[k + 1] = base + Sum([j \in 1..Len(FreeSizes) |->
                                                     LoopIdx(FreeSizes, j, k)
                                                     * DimStride(FreeNames[j])])
                   /\ \A k1, k2 \in 1..Len(seen) : seen[k1] = seen[k2] => k1 = k2
                   /\ FreeSizes = <<>> => seen = <<base>>

\* C12 witness: a finished invocation over two free dimensions, the loop run from a
\* base offset in the second subspace.
C12_Witness ==
    \E t \in active :
        /\ pc[t] = "done"
        /\ dense_offset[t] # npos
        /\ Len(param.dense_plan.loop_cnt) = 2
        /\ 1 \in Range(reported[t])
        /\ Len(Visited(t, 1)) = 6

\* ---------------------------------------------------------------- C13
\* The indexed input dimensions by what the spec says of them, each in name order.
Unpinned(dims) == Filter(dims, {d \in Range(dims) : d.name \notin SpecNames(spec)})
ChildPinned(dims) ==
    Filter(dims, {d \in Range(dims) :
                     \E e \in Range(spec) : e.name = d.name /\ e.child_or_label.has_child})
LabelPinned(dims) ==
    Filter(dims, {d \in Range(dims) :
                     \E e \in Range(spec) : e.name = d.name /\ ~e.child_or_label.has_child})
SpecEntry(name) == CHOOSE e \in Range(spec) : e.name = name
DensePlanBuilt == build_pc \in {"dense", "sparse", "ready", "running"}
SparsePlanBuilt == build_pc \in {"sparse", "ready", "running"}

\* C13: once the plans are built, every indexed input dimension is exactly one of a
\* loop entry (the unpinned ones, in name order), a Child entry (the child-pinned
\* ones, in name order) or a term of verbatim_offset (the label-pinned ones), and
\* every mapped input dimension is counted in out_mapped_dims or listed in
\* view_dims, with one lookup spec per view dimension and view_dims strictly
\* increasing.
C13_Accounting ==
    /\ DensePlanBuilt =>
          LET dp == param.dense_plan
              idims == IndexedDims(input_type)
              free == Unpinned(idims)
              kids == ChildPinned(idims)
              fixed == LabelPinned(idims)
          IN /\ Len(dp.loop_cnt) + Len(dp.children) + Len(fixed) = Len(idims)
             /\ Len(dp.in_stride) = Len(dp.loop_cnt)
             /\ dp.loop_cnt = [j \in 1..Len(free) |-> free[j].size]
             /\ dp.in_stride = [j \in 1..Len(free) |-> DimStride(free[j].name)]
             /\ dp.children = [j \in 1..Len(kids) |->
                                 Child(SpecEntry(kids[j].name).child_or_label.child,
                                       DimStride(kids[j].name), kids[j].size)]
             /\ dp.verbatim_offset =
                   Sum([j \in 1..Len(fixed) |->
                          SpecEntry(fixed[j].name).child_or_label.label.index
                          * DimStride(fixed[j].name)])
    /\ SparsePlanBuilt =>
          LET sp == param.sparse_plan
              mdims == MappedDims(input_type)
          IN /\ sp.out_mapped_dims + Len(sp.view_dims) = Len(mdims)
             /\ sp.out_mapped_dims = Len(Unpinned(mdims))
             /\ Len(sp.lookup_specs) = Len(sp.view_dims)
             /\ \A j \in 1..Len(sp.view_dims) :
                   /\ sp.view_dims[j] \in 0..(Len(mdims) - 1)
                   /\ mdims[sp.view_dims[j] + 1].name = sp.lookup_specs[j].name
                   /\ j > 1 => sp.view_dims[j - 1] < sp.view_dims[j]

\* C13 witness: a built plan with a child-pinned and no free indexed dimension, a
\* free mapped dimension and a pinned one behind it.
C13_Witness ==
    /\ build_pc = "ready"
    /\ Len(param.dense_plan.children) = 1
    /\ param.dense_plan.loop_cnt = <<>>
    /\ param.sparse_plan.out_mapped_dims = 1
    /\ param.sparse_plan.view_dims = <<1>>

\* ---------------------------------------------------------------- C14
\* The largest displacement the nested loop adds to its base offset.
MaxDisplacement(dense_plan) ==
    Sum([j \in 1..Len(dense_plan.loop_cnt) |->
            (dense_plan.loop_cnt[j] - 1) * dense_plan.in_stride[j]])
AfterGetOffset(t) == pc[t] \in {"make_state", "iterate", "finish", "done", "assert_failed"}

\* C14: an offset get_offset returns other than npos, plus the largest loop
\* displacement, is below in_dense_size, so every index read for a reported subspace
\* s lies in [s * in_dense_size, (s + 1) * in_dense_size) and inside the input's cell
\* array, and no invocation is stopped by a read outside it; and npos is no
\* resolvable offset: with every child in range the offset returned is not npos,
\* and in_dense_size is below npos.
C14_OffsetInBounds ==
    \A t \in active :
        /\ pc[t] # "crashed"
        /\ AfterGetOffset(t) =>
            LET dp == param.dense_plan
            IN /\ dp.in_dense_size < npos
               /\ ~DenseChildOOR(t) => dense_offset[t] # npos
               /\ dense_offset[t] # npos =>
                     /\ dense_offset[t] + MaxDisplacement(dp) < dp.in_dense_size
                     /\ \A j \in 1..Len(reported[t]) :
                           LET s == reported[t][j]
                               seen == Visited(t, s)
                           IN \A k \in 1..Len(seen) :
                                 /\ seen[k] >= s * dp.in_dense_size
                                 /\ seen[k] < (s + 1) * dp.in_dense_size
                                 /\ seen[k] < Len(in_ref[t].cells)

\* C14 witness: a finished invocation whose child resolved to the last coordinate,
\* so that the last index read in the second subspace is that subspace's last cell.
C14_Witness ==
    \E t \in active :
        /\ pc[t] = "done"
        /\ param.dense_plan.children # <<>>
        /\ param.dense_plan.loop_cnt # <<>>
        /\ dense_offset[t] \notin {0, npos}
        /\ dense_offset[t] + MaxDisplacement(param.dense_plan) = param.dense_plan.in_dense_size - 1
        /\ 1 \in Range(reported[t])
====
